---------------------------- MODULE Spec2Model ----------------------------
(***************************************************************************)
(* dogfinder-web backend: the rate limiter, the TTL cache, the listing     *)
(* fetcher, the aggregation pass (search_animals / fetch_all_animals) and  *)
(* the search endpoint (api_dogs), modelled from src/backend/main.py and   *)
(* src/backend/app.py.                                                     *)
(*                                                                         *)
(* Time is the wall clock in whole seconds.  Python strings are TLA+       *)
(* strings, read character by character where the code inspects them.      *)
(***************************************************************************)
EXTENDS Integers, Sequences, FiniteSets, TLC

VARIABLES
    now,          \* the wall clock: time.time() / datetime.now(timezone.utc)
    NOW_UTC,      \* main.NOW_UTC, read once when the module is imported
    _RATE_LIMIT,  \* main._RATE_LIMIT: key -> time of the recorded request
    _CACHE,       \* main._CACHE: key -> <<expiry, value>>
    _ORG_CACHE,   \* main._ORG_CACHE: key -> <<expiry, organization>>
    calls,        \* history: every check_rate_limit call made so far
    sets,         \* history: the latest cache_set of each key
    ret,          \* what the last operation returned (or raised)
    upstream_log, \* the upstream requests the last operation issued, in order
    upstream,     \* the upstream API: what its endpoints answer at present
    pass,         \* history: the inputs and the lists of the last aggregation pass
    threads       \* request threads inside check_rate_limit: position and locals

vars == <<now, NOW_UTC, _RATE_LIMIT, _CACHE, _ORG_CACHE, calls, sets, ret, upstream_log,
          upstream, pass, threads>>

None == "None"

(***************************************************************************)
(* Bounds of the model.                                                    *)
(***************************************************************************)
MaxClock == 60     \* the clock stops advancing at this many seconds after import
MaxCalls == 6       \* check_rate_limit calls in one behaviour
MaxThreads == 2     \* request threads that run check_rate_limit concurrently
MaxRaceCalls == 3   \* check_rate_limit calls the request threads make in one behaviour

(***************************************************************************)
(* Program constants.                                                      *)
(***************************************************************************)
HOURS_24 == 86400           \* timedelta(hours=24), in seconds
SEARCH_MAX_REQUESTS == 5    \* search_animals: max_requests=5
SEARCH_WINDOW == 60         \* search_animals: window_seconds=60
API_DOGS_TTL == 120         \* api_dogs: cache_set(..., ttl_seconds=120)
ORG_TTL == 3600             \* get_organization_by_id: now + 3600

CUTOFF_UTC == NOW_UTC - HOURS_24

(***************************************************************************)
(* Python dict helpers: a dict is a function on its finite key set.        *)
(***************************************************************************)
EmptyDict == [k \in {} |-> None]

DictSet(d, k, v) == [x \in (DOMAIN d) \cup {k} |-> IF x = k THEN v ELSE d[x]]

DictPop(d, k) == [x \in (DOMAIN d) \ {k} |-> d[x]]

DictValues(d) == {d[k] : k \in DOMAIN d}

(***************************************************************************)
(* The clock.  Between two operations the clock either advances or not:    *)
(* time.time() has a finite resolution, so two calls made close together   *)
(* read the same value.                                                    *)
(***************************************************************************)
AdvanceClock(d) ==
    /\ d > 0
    /\ now' = now + d
    /\ UNCHANGED <<threads, NOW_UTC, _RATE_LIMIT, _CACHE, _ORG_CACHE, calls, sets, ret, upstream_log,
                 upstream, pass>>

(***************************************************************************)
(* check_rate_limit (main.py 400-418).                                     *)
(***************************************************************************)
\* key = f"rate:{identifier}"; the record's key is f"{key}:{now}"
RateKey(identifier, t) == <<"rate", identifier, t>>

\* _RATE_LIMIT = {k: v for k, v in _RATE_LIMIT.items() if v > cutoff}
Sweep(store, cutoff) == [k \in {x \in DOMAIN store : store[x] > cutoff} |-> store[k]]

\* recent_requests = [v for v in _RATE_LIMIT.values() if v > cutoff]; len()
\* counts one per key of the swept dict, whatever identifier the key names.
RecentRequests(store, cutoff) == Cardinality({k \in DOMAIN store : store[k] > cutoff})

RateAllowed(store, t, max_requests, window_seconds) ==
    ~ (RecentRequests(Sweep(store, t - window_seconds), t - window_seconds) >= max_requests)

\* the store check_rate_limit leaves behind
RateStoreAfterRecordFirst(store, identifier, t, max_requests, window_seconds) ==
    DictSet(Sweep(store, t - window_seconds), RateKey(identifier, t), t)
RateStoreAfter(store, identifier, t, max_requests, window_seconds) ==
    LET swept == Sweep(store, t - window_seconds) IN
    IF RateAllowed(store, t, max_requests, window_seconds)
    THEN DictSet(swept, RateKey(identifier, t), t)
    ELSE swept

CheckRateLimit(identifier, max_requests, window_seconds) ==
    /\ Len(calls) < MaxCalls
    /\ LET ok == RateAllowed(_RATE_LIMIT, now, max_requests, window_seconds) IN
       /\ _RATE_LIMIT' = RateStoreAfter(_RATE_LIMIT, identifier, now, max_requests, window_seconds)
       /\ calls' = Append(calls, [id |-> identifier, N |-> max_requests,
                                  W |-> window_seconds, t |-> now, ok |-> ok])
       /\ ret' = [op |-> "check_rate_limit", val |-> ok]
    /\ UNCHANGED <<threads, now, NOW_UTC, _CACHE, _ORG_CACHE, sets, upstream_log, upstream, pass>>

(***************************************************************************)
(* check_rate_limit run by several request threads at once (the endpoints  *)
(* are synchronous handlers, served from a thread pool).  A thread is      *)
(* preempted between any two accesses of the shared _RATE_LIMIT: after     *)
(* reading the clock, after building the swept dict, after rebinding       *)
(* _RATE_LIMIT to it, and after counting.  Each thread keeps its locals    *)
(* (now, the swept dict, the count) until it returns.                      *)
(***************************************************************************)
Threads == 1..MaxThreads

IdleThread == [pc |-> "idle", id |-> None, N |-> 0, W |-> 0, t |-> 0,
               swept |-> EmptyDict, recent |-> 0]

ActiveThreads == {th \in Threads : threads[th].pc # "idle"}

\* now = time.time(); key = f"rate:{identifier}:{now}"
ThreadReadClock(th, identifier, max_requests, window_seconds) ==
    /\ threads[th].pc = "idle"
    /\ Len(calls) + Cardinality(ActiveThreads) < MaxRaceCalls
    /\ threads' = [threads EXCEPT ![th] = [pc |-> "sweep", id |-> identifier,
                                           N |-> max_requests, W |-> window_seconds,
                                           t |-> now, swept |-> EmptyDict, recent |-> 0]]
    /\ UNCHANGED <<now, NOW_UTC, _RATE_LIMIT, _CACHE, _ORG_CACHE, calls, sets, ret,
                   upstream_log, upstream, pass>>

\* {k: v for k, v in _RATE_LIMIT.items() if v > cutoff}: the new dict is built
\* from the dict _RATE_LIMIT names at this moment
ThreadBuildSwept(th) ==
    /\ threads[th].pc = "sweep"
    /\ threads' = [threads EXCEPT ![th].pc = "rebind",
                                  ![th].swept = Sweep(_RATE_LIMIT, threads[th].t - threads[th].W)]
    /\ UNCHANGED <<now, NOW_UTC, _RATE_LIMIT, _CACHE, _ORG_CACHE, calls, sets, ret,
                   upstream_log, upstream, pass>>

\* _RATE_LIMIT = <the dict built above>
ThreadRebind(th) ==
    /\ threads[th].pc = "rebind"
    /\ _RATE_LIMIT' = threads[th].swept
    /\ threads' = [threads EXCEPT ![th].pc = "count"]
    /\ UNCHANGED <<now, NOW_UTC, _CACHE, _ORG_CACHE, calls, sets, ret, upstream_log,
                   upstream, pass>>

\* recent_requests = [v for v in _RATE_LIMIT.values() if v > cutoff]
ThreadCount(th) ==
    /\ threads[th].pc = "count"
    /\ threads' = [threads EXCEPT ![th].pc = "record",
                                  ![th].recent = RecentRequests(_RATE_LIMIT,
                                                     threads[th].t - threads[th].W)]
    /\ UNCHANGED <<now, NOW_UTC, _RATE_LIMIT, _CACHE, _ORG_CACHE, calls, sets, ret,
                   upstream_log, upstream, pass>>

\* if len(recent_requests) >= max_requests: return False
\* _RATE_LIMIT[key] = now; return True
ThreadRecord(th) ==
    /\ threads[th].pc = "record"
    /\ LET me == threads[th]
           ok == ~ (me.recent >= me.N) IN
       /\ _RATE_LIMIT' = IF ok THEN DictSet(_RATE_LIMIT, RateKey(me.id, me.t), me.t)
                               ELSE _RATE_LIMIT
       /\ calls' = Append(calls, [id |-> me.id, N |-> me.N, W |-> me.W, t |-> me.t,
                                  ok |-> ok])
       /\ ret' = [op |-> "check_rate_limit", val |-> ok]
    /\ threads' = [threads EXCEPT ![th] = IdleThread]
    /\ UNCHANGED <<now, NOW_UTC, _CACHE, _ORG_CACHE, sets, upstream_log, upstream, pass>>

(***************************************************************************)
(* cache_get / cache_set (main.py 386-398).                                *)
(***************************************************************************)
\* exp < now: the entry is expired
CacheExpiredLE(entry, t) == entry[1] <= t
CacheExpired(entry, t) == entry[1] < t

CacheGetVal(cache, key, t) ==
    IF key \notin DOMAIN cache THEN None
    ELSE IF CacheExpired(cache[key], t) THEN None
    ELSE cache[key][2]

CacheGetStoreNoEvict(cache, key, t) == cache
CacheGetStore(cache, key, t) ==
    IF key \in DOMAIN cache /\ CacheExpired(cache[key], t)
    THEN DictPop(cache, key)
    ELSE cache

\* _CACHE[key] = (time.time() + ttl_seconds, val)
CacheSetStoreNoTTL(cache, key, val, ttl_seconds, t) == DictSet(cache, key, <<t, val>>)
CacheSetStore(cache, key, val, ttl_seconds, t) == DictSet(cache, key, <<t + ttl_seconds, val>>)

cache_get(key) ==
    /\ ret' = [op |-> "cache_get", key |-> key, t |-> now, before |-> _CACHE,
                val |-> CacheGetVal(_CACHE, key, now)]
    /\ _CACHE' = CacheGetStore(_CACHE, key, now)
    /\ UNCHANGED <<threads, now, NOW_UTC, _RATE_LIMIT, _ORG_CACHE, calls, sets, upstream_log, upstream, pass>>

cache_set(key, val, ttl_seconds) ==
    /\ _CACHE' = CacheSetStore(_CACHE, key, val, ttl_seconds, now)
    /\ sets' = DictSet(sets, key, [t |-> now, ttl |-> ttl_seconds, val |-> val])
    /\ ret' = [op |-> "cache_set", key |-> key, t |-> now, val |-> None]
    /\ UNCHANGED <<threads, now, NOW_UTC, _RATE_LIMIT, _ORG_CACHE, calls, upstream_log, upstream, pass>>

(***************************************************************************)
(* Python strings: str.lower(), str.strip(), the `in` substring test.      *)
(***************************************************************************)
UPPERCASE == "ABCDEFGHIJKLMNOPQRSTUVWXYZ"
LOWERCASE == "abcdefghijklmnopqrstuvwxyz"

UpperChars == {SubSeq(UPPERCASE, i, i) : i \in 1..Len(UPPERCASE)}
LowerChars == {SubSeq(LOWERCASE, i, i) : i \in 1..Len(LOWERCASE)}

LowerOf == [c \in UpperChars |->
               LET i == CHOOSE i \in 1..Len(UPPERCASE) : SubSeq(UPPERCASE, i, i) = c
               IN SubSeq(LOWERCASE, i, i)]
UpperOf == [c \in LowerChars |->
               LET i == CHOOSE i \in 1..Len(LOWERCASE) : SubSeq(LOWERCASE, i, i) = c
               IN SubSeq(UPPERCASE, i, i)]

LowerChar(c) == IF c \in UpperChars THEN LowerOf[c] ELSE c

RECURSIVE Lower(_)
Lower(s) == IF Len(s) = 0 THEN "" ELSE LowerChar(SubSeq(s, 1, 1)) \o Lower(SubSeq(s, 2, Len(s)))

RECURSIVE LStrip(_)
LStrip(s) == IF Len(s) > 0 /\ SubSeq(s, 1, 1) = " " THEN LStrip(SubSeq(s, 2, Len(s))) ELSE s

RECURSIVE RStrip(_)
RStrip(s) ==
    IF Len(s) > 0 /\ SubSeq(s, Len(s), Len(s)) = " " THEN RStrip(SubSeq(s, 1, Len(s) - 1)) ELSE s

Strip(s) == RStrip(LStrip(s))

\* needle in hay
Contains(hay, needle) ==
    \E i \in 1..(Len(hay) - Len(needle) + 1) : SubSeq(hay, i, i + Len(needle) - 1) = needle

\* " ".join(parts)
RECURSIVE JoinWith(_, _)
JoinWith(parts, sep) ==
    IF parts = <<>> THEN ""
    ELSE IF Len(parts) = 1 THEN parts[1]
    ELSE parts[1] \o sep \o JoinWith(Tail(parts), sep)

\* x or "": a JSON null reads as the empty string
OrEmpty(x) == IF x = None THEN "" ELSE x

(***************************************************************************)
(* Listings.  published_at is the upstream text, kept by what parse_dt     *)
(* makes of it: an offset-aware datetime, a naive datetime (ISO text       *)
(* without an offset), or nothing (missing or non-ISO text).               *)
(***************************************************************************)
\* a listing as the code reads it; ids are opaque strings
NoContact == [email |-> "", phone |-> "", address |-> [city |-> "", state |-> ""]]
NoInfo == [name |-> "", email |-> "", phone |-> ""]

Dog(id, name, primary, secondary, size, published_at, distance) ==
    [id |-> id, name |-> name, breeds |-> [primary |-> primary, secondary |-> secondary],
     age |-> "Young", size |-> size, gender |-> "Male", published_at |-> published_at,
     distance |-> distance, organization_id |-> None, contact |-> NoContact,
     organization |-> NoInfo]

Aware(t) == [kind |-> "aware", t |-> t]
Naive(t) == [kind |-> "naive", t |-> t]
Malformed == [kind |-> "malformed", t |-> 0]
NoDatetime == [kind |-> "none", t |-> 0]

\* datetime.fromtimestamp(0, tz=timezone.utc), in seconds from the import
EPOCH_UTC == -1700000000

\* parse_dt (main.py 93-98)
parse_dt(published_at) ==
    IF published_at.kind \in {"aware", "naive"} THEN published_at ELSE NoDatetime

\* dt < CUTOFF_UTC and dt >= CUTOFF_UTC: comparing a naive datetime with the
\* offset-aware CUTOFF_UTC raises TypeError
CompareRaises(dt) == dt.kind = "naive"

\* within_24_hours (main.py 100-102): bool(dt and dt >= CUTOFF_UTC)
within_24_hours_strict(published_at) ==
    LET dt == parse_dt(published_at) IN
    IF dt.kind = "none" THEN [exc |-> None, val |-> FALSE]
    ELSE IF CompareRaises(dt) THEN [exc |-> "TypeError", val |-> FALSE]
    ELSE [exc |-> None, val |-> dt.t > CUTOFF_UTC]
within_24_hours(published_at) ==
    LET dt == parse_dt(published_at) IN
    IF dt.kind = "none" THEN [exc |-> None, val |-> FALSE]
    ELSE IF CompareRaises(dt) THEN [exc |-> "TypeError", val |-> FALSE]
    ELSE [exc |-> None, val |-> dt.t >= CUTOFF_UTC]

\* EXCLUDED_BREEDS (main.py 34-47)
EXCLUDED_BREEDS ==
    {"Husky", "Coonhound", "Pit Bull", "Jack Russell Terrier", "German Shepherd",
     "Carolina Dog Mix", "Bull Terrier", "Chihuahua", "Rhodesian Ridgeback",
     "Rottweiler", "English Bulldog", "American Staffordshire Terrier"}

\* banned.lower() for banned in EXCLUDED_BREEDS
LoweredExcluded == {Lower(banned) : banned \in EXCLUDED_BREEDS}

\* names: the stripped primary and secondary breed, where a non-blank string
BreedNames(breeds) ==
    LET p == IF breeds.primary # None /\ Strip(breeds.primary) # ""
             THEN <<Strip(breeds.primary)>> ELSE <<>>
        q == IF breeds.secondary # None /\ Strip(breeds.secondary) # ""
             THEN <<Strip(breeds.secondary)>> ELSE <<>>
    IN p \o q

\* breed_excluded (main.py 77-91)
breed_excluded_primary_only(breeds) ==
    \E low \in {Lower(IF breeds.primary = None THEN "" ELSE Strip(breeds.primary))} :
        \E banned \in LoweredExcluded : Contains(low, banned)
breed_excluded(breeds) ==
    \E low \in {Lower(JoinWith(BreedNames(breeds), " "))} :
        \E banned \in LoweredExcluded : Contains(low, banned)

\* create_dog_fingerprint (main.py 178-199)
create_dog_fingerprint(dog) ==
    JoinWith(<<Lower(Strip(OrEmpty(dog.name))),
               Lower(Strip(OrEmpty(dog.breeds.primary))),
               Lower(Strip(OrEmpty(dog.breeds.secondary))),
               Lower(Strip(OrEmpty(dog.age))),
               Lower(Strip(OrEmpty(dog.size))),
               Lower(Strip(OrEmpty(dog.gender)))>>, "|||")

(***************************************************************************)
(* The upstream API, as one operation sees it: the token endpoint's        *)
(* status, per ZIP code the pages of the listing search, per organization  *)
(* id the organization endpoint's answer.  A page past the last one given  *)
(* is an empty page.                                                       *)
(***************************************************************************)
EmptyPage == [status |-> 200, animals |-> <<>>, total_pages |-> 0]

PageResponse(world, zip, page) ==
    IF zip \in DOMAIN world.pages /\ page <= Len(world.pages[zip])
    THEN world.pages[zip][page]
    ELSE EmptyPage

AnimalsRequest(zip, page) == <<"animals", zip, page>>
TokenRequest == <<"token">>
OrganizationRequest(id) == <<"organization", id>>

(***************************************************************************)
(* collect_animals_for_zip_filtered (main.py 145-176); the same loop is    *)
(* collect_animals_for_zip (main.py 104-142).  The result: the listings    *)
(* collected, the page requests issued, and the exception raised, if any.  *)
(***************************************************************************)
\* total_pages = pagination.get("total_pages") or page; a missing count reads 0
TotalPages(resp, page) == IF resp.total_pages = 0 THEN page ELSE resp.total_pages

\* the loop goes on to page + 1: page < total_pages and not
\* (last_published and last_published < CUTOFF_UTC)
LastIsOldOrAtCutoff(animals) ==
    LET last_published == parse_dt(animals[Len(animals)].published_at) IN
    last_published.kind # "none" /\ last_published.t <= CUTOFF_UTC
LastIsOld(animals) ==
    LET last_published == parse_dt(animals[Len(animals)].published_at) IN
    last_published.kind # "none" /\ last_published.t < CUTOFF_UTC

FetchRaises(resp, page) ==
    /\ resp.animals # <<>>
    /\ page < TotalPages(resp, page)
    /\ CompareRaises(parse_dt(resp.animals[Len(resp.animals)].published_at))

FetchContinuesIgnoringAge(resp, page) ==
    /\ resp.animals # <<>>
    /\ page < TotalPages(resp, page)
FetchContinues(resp, page) ==
    /\ resp.animals # <<>>
    /\ page < TotalPages(resp, page)
    /\ ~ LastIsOld(resp.animals)

RECURSIVE CollectFrom(_, _, _, _)
CollectFrom(world, zip, page, acc) ==
    LET resp == PageResponse(world, zip, page)
        reqs == Append(acc.requests, AnimalsRequest(zip, page))
    IN  IF resp.status # 200
        THEN [animals |-> acc.animals, requests |-> reqs, exc |-> "HTTPError"]
        ELSE LET got == [animals |-> acc.animals \o resp.animals, requests |-> reqs,
                         exc |-> None]
             IN  IF FetchRaises(resp, page) THEN [got EXCEPT !.exc = "TypeError"]
                 ELSE IF FetchContinues(resp, page)
                 THEN CollectFrom(world, zip, page + 1, got)
                 ELSE got

\* the loop with r.raise_for_status() (main.py 161)
collect_animals_for_zip_swallowing(world, zip) ==
    [CollectFrom(world, zip, 1, [animals |-> <<>>, requests |-> <<>>, exc |-> None])
        EXCEPT !.exc = None]
collect_animals_for_zip(world, zip) ==
    CollectFrom(world, zip, 1, [animals |-> <<>>, requests |-> <<>>, exc |-> None])

(***************************************************************************)
(* get_organization_by_id (main.py 201-232) and                            *)
(* extract_organization_info (main.py 234-278).                            *)
(***************************************************************************)
OrgKey(organization_id) == <<"org", organization_id>>

\* no organization: None, or a dict that reads false
NoOrganization == [some |-> FALSE, name |-> "", email |-> "", phone |-> ""]
Organization(name, email, phone) == [some |-> TRUE, name |-> name, email |-> email, phone |-> phone]

NotFound == [status |-> 404, organization |-> NoOrganization]

OrgResponse(world, organization_id) ==
    IF organization_id \in DOMAIN world.orgs THEN world.orgs[organization_id] ELSE NotFound

\* [val, cache, requests]: the organization (or None), the organization
\* cache afterwards and the upstream requests issued
get_organization_by_id_caching_failures(cache, organization_id, t, world) ==
    LET key == OrgKey(organization_id) IN
    IF key \in DOMAIN cache /\ cache[key][1] > t
    THEN [val |-> cache[key][2], cache |-> cache, requests |-> <<>>]
    ELSE [val |-> OrgResponse(world, organization_id).organization,
          cache |-> DictSet(cache, key,
                            <<t + ORG_TTL, OrgResponse(world, organization_id).organization>>),
          requests |-> <<OrganizationRequest(organization_id)>>]
get_organization_by_id(cache, organization_id, t, world) ==
    LET key == OrgKey(organization_id) IN
    IF key \in DOMAIN cache /\ cache[key][1] > t
    THEN [val |-> cache[key][2], cache |-> cache, requests |-> <<>>]
    ELSE LET popped == DictPop(cache, key)
             resp == OrgResponse(world, organization_id)
             reqs == <<OrganizationRequest(organization_id)>>
         IN  IF resp.status # 200 \/ ~ resp.organization.some
             THEN [val |-> NoOrganization, cache |-> popped, requests |-> reqs]
             ELSE [val |-> resp.organization,
                   cache |-> DictSet(popped, key, <<t + ORG_TTL, resp.organization>>),
                   requests |-> reqs]

UpperChar(c) == IF c \in LowerChars THEN UpperOf[c] ELSE c

\* word.capitalize()
Capitalize(w) ==
    IF Len(w) = 0 THEN "" ELSE UpperChar(SubSeq(w, 1, 1)) \o Lower(SubSeq(w, 2, Len(w)))

\* s.replace(old, new), old not empty
RECURSIVE Replace(_, _, _)
Replace(s, old, new) ==
    IF Len(s) < Len(old) THEN s
    ELSE IF SubSeq(s, 1, Len(old)) = old
    THEN new \o Replace(SubSeq(s, Len(old) + 1, Len(s)), old, new)
    ELSE SubSeq(s, 1, 1) \o Replace(SubSeq(s, 2, Len(s)), old, new)

\* s.split(): the words between runs of blanks
RECURSIVE SplitWords(_, _)
SplitWords(s, word) ==
    IF Len(s) = 0 THEN (IF word = "" THEN <<>> ELSE <<word>>)
    ELSE IF SubSeq(s, 1, 1) = " "
    THEN (IF word = "" THEN <<>> ELSE <<word>>) \o SplitWords(SubSeq(s, 2, Len(s)), "")
    ELSE SplitWords(SubSeq(s, 2, Len(s)), word \o SubSeq(s, 1, 1))

\* email.split("@")[1]
RECURSIVE UpToAt(_)
UpToAt(s) ==
    IF Len(s) = 0 \/ SubSeq(s, 1, 1) = "@" THEN "" ELSE SubSeq(s, 1, 1) \o UpToAt(SubSeq(s, 2, Len(s)))

RECURSIVE AfterAt(_)
AfterAt(s) ==
    IF Len(s) = 0 THEN ""
    ELSE IF SubSeq(s, 1, 1) = "@" THEN UpToAt(SubSeq(s, 2, Len(s)))
    ELSE AfterAt(SubSeq(s, 2, Len(s)))

CapitalizeAll(words) == [i \in 1..Len(words) |-> Capitalize(words[i])]

\* the organization name made of the email domain (main.py 260-264)
DomainName(email) ==
    LET domain == AfterAt(email)
        bare == Replace(Replace(Replace(domain, ".org", ""), ".com", ""), ".net", "")
    IN JoinWith(CapitalizeAll(SplitWords(Replace(Replace(bare, ".", " "), "-", " "), "")), " ")

HasAt(email) == email # None /\ email # "" /\ Contains(email, "@")

\* the fallback of extract_organization_info (main.py 249-278)
ContactOrganization(contact) ==
    LET city == contact.address.city
        state == contact.address.state
        email == contact.email
        name == IF city # "" /\ state # ""
                THEN IF HasAt(email)
                     THEN IF DomainName(email) = ""
                          THEN "Shelter in " \o city \o ", " \o state
                          ELSE DomainName(email)
                     ELSE "Shelter in " \o city \o ", " \o state
                ELSE IF HasAt(email) THEN DomainName(email)
                ELSE "Unknown Shelter"
    IN [name |-> name, email |-> email, phone |-> contact.phone]

\* [info, cache, requests]
extract_organization_info(animal, cache, t, world) ==
    IF animal.organization_id # None /\ animal.organization_id # ""
    THEN LET got == get_organization_by_id(cache, animal.organization_id, t, world) IN
         [info |-> IF got.val.some
                   THEN [name |-> got.val.name, email |-> got.val.email, phone |-> got.val.phone]
                   ELSE ContactOrganization(animal.contact),
          cache |-> got.cache, requests |-> got.requests]
    ELSE [info |-> ContactOrganization(animal.contact), cache |-> cache, requests |-> <<>>]

(***************************************************************************)
(* The aggregation pass of search_animals (main.py 296-324) and of         *)
(* fetch_all_animals (main.py 422-447).  all_animals is a dict keyed by    *)
(* id; its values, in insertion order, are the sequence `all`.             *)
(***************************************************************************)
HasId(all, aid) == \E i \in 1..Len(all) : all[i].id = aid

\* the dedup test of the loop body: the fingerprint was seen, or the listing
\* has no id, or its id is already retained
IsDuplicateFingerprintOnly(acc, a, fingerprint) ==
    \/ fingerprint \in acc.seen
    \/ a.id = None
IsDuplicate(acc, a, fingerprint) ==
    \/ fingerprint \in acc.seen
    \/ a.id = None
    \/ HasId(acc.all, a.id)

AddAnimal(acc, a, t, world) ==
    LET recent == within_24_hours(a.published_at)
        fingerprint == create_dog_fingerprint(a)
    IN
    IF recent.exc # None THEN [acc EXCEPT !.exc = recent.exc]
    ELSE IF ~ recent.val THEN acc
    ELSE IF breed_excluded(a.breeds) THEN acc
    ELSE IF IsDuplicate(acc, a, fingerprint) THEN acc
    ELSE LET org == extract_organization_info(a, acc.org_cache, t, world) IN
         [acc EXCEPT !.all = Append(acc.all, [a EXCEPT !.organization = org.info]),
                     !.seen = acc.seen \cup {fingerprint},
                     !.org_cache = org.cache,
                     !.requests = acc.requests \o org.requests]

RECURSIVE AddAnimals(_, _, _, _)
AddAnimals(acc, animals, t, world) ==
    IF animals = <<>> \/ acc.exc # None THEN acc
    ELSE AddAnimals(AddAnimal(acc, Head(animals), t, world), Tail(animals), t, world)

RECURSIVE AggregateZips(_, _, _, _)
AggregateZips(acc, zips, t, world) ==
    IF zips = <<>> \/ acc.exc # None THEN acc
    ELSE LET fetched == collect_animals_for_zip(world, Head(zips))
             asked == [acc EXCEPT !.requests = acc.requests \o fetched.requests,
                                  !.fetched = acc.fetched \o fetched.animals]
         IN  IF fetched.exc # None THEN [asked EXCEPT !.exc = fetched.exc]
             ELSE AggregateZips(AddAnimals(asked, fetched.animals, t, world),
                                Tail(zips), t, world)

\* token = get_token(), then the loop over the ZIP codes
Aggregate(zips, org_cache, t, world) ==
    LET start == [all |-> <<>>, seen |-> {}, org_cache |-> org_cache,
                  requests |-> <<TokenRequest>>, fetched |-> <<>>, exc |-> None]
    IN  IF world.token_status # 200 THEN [start EXCEPT !.exc = "HTTPError"]
        ELSE AggregateZips(start, zips, t, world)

(***************************************************************************)
(* matches_filters, the sort and the slice of search_animals               *)
(* (main.py 326-368).                                                      *)
(***************************************************************************)
LowerAll(strs) == {Lower(strs[i]) : i \in 1..Len(strs)}

LowerNames(breeds) ==
    LET names == BreedNames(breeds) IN [i \in 1..Len(names) |-> Lower(names[i])]

matches_filters(a, sizes, include_breeds, exclude_breeds) ==
    /\ sizes # <<>> => Lower(OrEmpty(a.size)) \in LowerAll(sizes)
    /\ include_breeds # <<>> =>
          \E i \in 1..Len(include_breeds) :
              Contains(JoinWith(LowerNames(a.breeds), " "), Lower(include_breeds[i]))
    /\ exclude_breeds # <<>> =>
          ~ \E i \in 1..Len(exclude_breeds) :
              Contains(Lower(JoinWith(<<OrEmpty(a.breeds.primary),
                                        OrEmpty(a.breeds.secondary)>>, " ")),
                       Lower(exclude_breeds[i]))

RECURSIVE Filter(_, _, _, _)
Filter(all, sizes, include_breeds, exclude_breeds) ==
    IF all = <<>> THEN <<>>
    ELSE (IF matches_filters(Head(all), sizes, include_breeds, exclude_breeds)
          THEN <<Head(all)>> ELSE <<>>)
         \o Filter(Tail(all), sizes, include_breeds, exclude_breeds)

\* x.get("distance") or 0; a missing distance reads 0
DistanceKey(a) == a.distance

\* parse_dt(x.get("published_at", "")) or datetime.fromtimestamp(0, tz=timezone.utc)
FreshnessKey(a) ==
    IF parse_dt(a.published_at).kind = "none" THEN EPOCH_UTC ELSE parse_dt(a.published_at).t

\* the freshness sort without reverse=True
SortKeyOldestFirst(a, sort) == IF sort = "distance" THEN DistanceKey(a) ELSE FreshnessKey(a)
SortKey(a, sort) == IF sort = "distance" THEN DistanceKey(a) ELSE - FreshnessKey(a)

\* list.sort is stable: x goes after the last element whose key is not greater
RECURSIVE InsertSorted(_, _, _)
InsertSorted(sorted, x, sort) ==
    IF sorted = <<>> THEN <<x>>
    ELSE IF SortKey(x, sort) < SortKey(Head(sorted), sort) THEN <<x>> \o sorted
    ELSE <<Head(sorted)>> \o InsertSorted(Tail(sorted), x, sort)

RECURSIVE SortFrom(_, _, _)
SortFrom(sorted, rest, sort) ==
    IF rest = <<>> THEN sorted
    ELSE SortFrom(InsertSorted(sorted, Head(rest), sort), Tail(rest), sort)

Sorted(list, sort) == SortFrom(<<>>, list, sort)

Max(a, b) == IF a >= b THEN a ELSE b
Min(a, b) == IF a <= b THEN a ELSE b

\* list[start:end] for 0 <= start <= end
Slice(list, start, end) == SubSeq(list, start + 1, Min(end, Len(list)))

\* start = max((page - 1) * page_size, 0)
PageStartOffByOne(page, page_size) == Max(page * page_size, 0)
PageStart(page, page_size) == Max((page - 1) * page_size, 0)

PageItems(filtered, page, page_size) ==
    Slice(filtered, PageStart(page, page_size), PageStart(page, page_size) + page_size)

(***************************************************************************)
(* search_animals (main.py 280-368) as one operation: the value returned   *)
(* or the exception raised, the stores afterwards, the upstream requests.  *)
(***************************************************************************)
SearchOutcome(p, world, t, rate_store, org_cache) ==
    LET allowed == RateAllowed(rate_store, t, SEARCH_MAX_REQUESTS, SEARCH_WINDOW)
        rate_after == RateStoreAfter(rate_store, "search", t, SEARCH_MAX_REQUESTS, SEARCH_WINDOW)
    IN  IF ~ allowed
        THEN [exc |-> "RateLimit", allowed |-> FALSE, rate |-> rate_after,
              org_cache |-> org_cache, requests |-> <<>>, fetched |-> <<>>,
              retained |-> <<>>, filtered |-> <<>>, items |-> <<>>, total |-> 0]
        ELSE LET agg == Aggregate(p.zips, org_cache, t, world)
                 filtered == Sorted(Filter(agg.all, p.sizes, p.include_breeds,
                                           p.exclude_breeds), p.sort)
             IN  IF agg.exc # None
                 THEN [exc |-> agg.exc, allowed |-> TRUE, rate |-> rate_after,
                       org_cache |-> agg.org_cache, requests |-> agg.requests,
                       fetched |-> agg.fetched, retained |-> <<>>, filtered |-> <<>>, items |-> <<>>, total |-> 0]
                 ELSE [exc |-> None, allowed |-> TRUE, rate |-> rate_after,
                       org_cache |-> agg.org_cache, requests |-> agg.requests,
                       fetched |-> agg.fetched, retained |-> agg.all, filtered |-> filtered,
                       items |-> PageItems(filtered, p.page, p.page_size),
                       total |-> Len(filtered)]

RateCallRecord(t, ok) ==
    [id |-> "search", N |-> SEARCH_MAX_REQUESTS, W |-> SEARCH_WINDOW, t |-> t, ok |-> ok]

search_animals(p) ==
    /\ Len(calls) < MaxCalls
    /\ \E out \in {SearchOutcome(p, upstream, now, _RATE_LIMIT, _ORG_CACHE)} :
       /\ _RATE_LIMIT' = out.rate
       /\ _ORG_CACHE' = out.org_cache
       /\ calls' = Append(calls, RateCallRecord(now, out.allowed))
       /\ upstream_log' = out.requests
       /\ pass' = [op |-> "search_animals", t |-> now, params |-> p, world |-> upstream,
                   exc |-> out.exc, fetched |-> out.fetched, retained |-> out.retained,
                   filtered |-> out.filtered]
       /\ ret' = [op |-> "search_animals", exc |-> out.exc, items |-> out.items,
                  page |-> p.page, pageSize |-> p.page_size, total |-> out.total]
    /\ UNCHANGED <<threads, now, NOW_UTC, _CACHE, sets, upstream>>

(***************************************************************************)
(* fetch_all_animals (main.py 420-454).                                    *)
(***************************************************************************)
DEFAULT_ZIPS == <<"08401", "11211", "19003">>
ZIP_CODES == DEFAULT_ZIPS

NoFilters == [zips |-> ZIP_CODES, sizes |-> <<>>, include_breeds |-> <<>>,
              exclude_breeds |-> <<>>, page |-> 1, page_size |-> 0, sort |-> "freshness"]

fetch_all_animals ==
    /\ \E agg \in {Aggregate(ZIP_CODES, _ORG_CACHE, now, upstream)} :
       \E sorted_animals \in {IF agg.exc # None THEN <<>> ELSE Sorted(agg.all, "freshness")} :
       /\ _ORG_CACHE' = agg.org_cache
       /\ upstream_log' = agg.requests
       /\ pass' = [op |-> "fetch_all_animals", t |-> now, params |-> NoFilters,
                   world |-> upstream, exc |-> agg.exc, fetched |-> agg.fetched,
                   retained |-> IF agg.exc # None THEN <<>> ELSE agg.all,
                   filtered |-> sorted_animals]
       /\ ret' = [op |-> "fetch_all_animals", exc |-> agg.exc, items |-> sorted_animals,
                  page |-> 1, pageSize |-> 0, total |-> Len(sorted_animals)]
    /\ UNCHANGED <<threads, now, NOW_UTC, _RATE_LIMIT, _CACHE, calls, sets, upstream>>

(***************************************************************************)
(* app.py: the query strings of the search endpoint.                       *)
(***************************************************************************)
DIGITS == "0123456789"

\* str(n) of a natural number
RECURSIVE Str(_)
Str(n) ==
    IF n < 10 THEN SubSeq(DIGITS, n + 1, n + 1)
    ELSE Str(n \div 10) \o SubSeq(DIGITS, (n % 10) + 1, (n % 10) + 1)

\* s.split(","): the pieces between commas
RECURSIVE SplitOn(_, _, _)
SplitOn(s, sep, piece) ==
    IF Len(s) = 0 THEN <<piece>>
    ELSE IF SubSeq(s, 1, 1) = sep
    THEN <<piece>> \o SplitOn(SubSeq(s, 2, Len(s)), sep, "")
    ELSE SplitOn(SubSeq(s, 2, Len(s)), sep, piece \o SubSeq(s, 1, 1))

RECURSIVE StripNonEmpty(_)
StripNonEmpty(pieces) ==
    IF pieces = <<>> THEN <<>>
    ELSE (IF Strip(Head(pieces)) # "" THEN <<Strip(Head(pieces))>> ELSE <<>>)
         \o StripNonEmpty(Tail(pieces))

\* [x.strip() for x in (csv or "").split(",") if x.strip()]
CsvList(csv) == StripNonEmpty(SplitOn(OrEmpty(csv), ",", ""))

(***************************************************************************)
(* parse_guidance_for_size_filtering (app.py 52-92).                       *)
(***************************************************************************)
WordChars ==
    LowerChars \cup UpperChars \cup {SubSeq(DIGITS, i, i) : i \in 1..Len(DIGITS)} \cup {"_"}

\* \b before position i and after position j of s
StartsWord(s, i) == i = 1 \/ SubSeq(s, i - 1, i - 1) \notin WordChars
EndsWord(s, j) == j = Len(s) \/ SubSeq(s, j + 1, j + 1) \notin WordChars

\* re.search(r'\bw\b', s)
HasWord(s, w) ==
    \E i \in 1..(Len(s) - Len(w) + 1) :
        /\ SubSeq(s, i, i + Len(w) - 1) = w
        /\ StartsWord(s, i)
        /\ EndsWord(s, i + Len(w) - 1)

\* re.search(r'\bw1\s+w2\b', s)
HasPhrase(s, w1, w2) ==
    \E i \in 1..Len(s) : \E j \in (i + Len(w1) + 1)..(Len(s) - Len(w2) + 1) :
        /\ SubSeq(s, i, i + Len(w1) - 1) = w1
        /\ StartsWord(s, i)
        /\ \A k \in (i + Len(w1))..(j - 1) : SubSeq(s, k, k) = " "
        /\ SubSeq(s, j, j + Len(w2) - 1) = w2
        /\ EndsWord(s, j + Len(w2) - 1)

LARGE_WORDS ==
    {"largest", "larger", "large", "big", "bigger", "biggest", "xl", "xlarge", "x-large",
     "giant", "massive", "huge"}
SMALL_WORDS == {"smallest", "smaller", "small", "tiny", "little", "miniature", "mini"}
NEGATIONS == {"nothing", "no", "exclude"}

wants_large(guidance_lower) ==
    \/ \E w \in LARGE_WORDS : HasWord(guidance_lower, w)
    \/ \E n \in NEGATIONS : HasPhrase(guidance_lower, n, "small")

wants_small(guidance_lower) ==
    \/ \E w \in SMALL_WORDS : HasWord(guidance_lower, w)
    \/ \E n \in NEGATIONS : HasPhrase(guidance_lower, n, "large")

NoGuidanceFilter == [filter_sizes |-> <<>>, exclude_sizes |-> <<>>]

\* a None size list reads false, as the empty list does
parse_guidance_for_size_filtering(guidance) ==
    IF guidance = None \/ guidance = "" THEN NoGuidanceFilter
    ELSE \* one binding of guidance.lower() for both searches
         CHOOSE gf \in {IF wants_large(low) /\ ~ wants_small(low)
                        THEN [filter_sizes |-> <<"Large", "Extra Large", "XL">>,
                              exclude_sizes |-> <<"Small">>]
                        ELSE IF wants_small(low) /\ ~ wants_large(low)
                        THEN [filter_sizes |-> <<"Small">>,
                              exclude_sizes |-> <<"Large", "Extra Large", "XL">>]
                        ELSE NoGuidanceFilter : low \in {Lower(guidance)}} : TRUE

(***************************************************************************)
(* apply_guidance_filtering (app.py 95-120).                               *)
(***************************************************************************)
\* any(size.lower() in dog_size.lower() for size in sizes)
AnySizeIn(sizes, dog_size) ==
    \E i \in 1..Len(sizes) : Contains(Lower(dog_size), Lower(sizes[i]))

GuidanceKeeps(dog, guidance_filter) ==
    /\ Strip(OrEmpty(dog.size)) # ""
    /\ guidance_filter.filter_sizes # <<>> =>
          AnySizeIn(guidance_filter.filter_sizes, Strip(OrEmpty(dog.size)))
    /\ guidance_filter.exclude_sizes # <<>> =>
          ~ AnySizeIn(guidance_filter.exclude_sizes, Strip(OrEmpty(dog.size)))

RECURSIVE KeepByGuidance(_, _)
KeepByGuidance(dogs, guidance_filter) ==
    IF dogs = <<>> THEN <<>>
    ELSE (IF GuidanceKeeps(Head(dogs), guidance_filter) THEN <<Head(dogs)>> ELSE <<>>)
         \o KeepByGuidance(Tail(dogs), guidance_filter)

apply_guidance_filtering(dogs, guidance_filter) ==
    IF guidance_filter.filter_sizes = <<>> /\ guidance_filter.exclude_sizes = <<>>
    THEN dogs
    ELSE KeepByGuidance(dogs, guidance_filter)

(***************************************************************************)
(* api_dogs (app.py 131-207).                                              *)
(***************************************************************************)
\* zips: the zip parameter split at commas, or DEFAULT_ZIPS
ApiZips(zip) == IF CsvList(zip) = <<>> THEN DEFAULT_ZIPS ELSE CsvList(zip)

RECURSIVE AppendMissing(_, _)
AppendMissing(final_sizes, more) ==
    IF more = <<>> THEN final_sizes
    ELSE AppendMissing(IF \E i \in 1..Len(final_sizes) : final_sizes[i] = Head(more)
                       THEN final_sizes ELSE Append(final_sizes, Head(more)),
                       Tail(more))

\* final_sizes (app.py 163-173)
FinalSizes(sizes, guidance_filter) ==
    IF guidance_filter.filter_sizes # <<>> /\ sizes = <<>> THEN guidance_filter.filter_sizes
    ELSE IF guidance_filter.filter_sizes # <<>> THEN AppendMissing(sizes, guidance_filter.filter_sizes)
    ELSE sizes

\* cache_key (app.py 175); f"{guidance}" of None is the text None
CacheKey(q, zips, include_list, exclude_list, final_sizes) ==
    JoinWith(<<"dogs", JoinWith(zips, ","), Str(q.radius), q.age,
               JoinWith(include_list, ","), JoinWith(exclude_list, ","),
               JoinWith(final_sizes, ","), q.guidance, q.sort, Str(q.page), Str(q.limit)>>, ":")

\* cached is not None
CacheHit(cache, key, t) == key \in DOMAIN cache /\ ~ CacheExpired(cache[key], t)

\* the cache_set of this key that came last, if any
LastSet(key) ==
    IF key \in DOMAIN sets THEN [some |-> TRUE, at |-> sets[key]] ELSE [some |-> FALSE]

NoResult == [items |-> <<>>, page |-> 0, pageSize |-> 0, total |-> 0]

\* the cache hit (app.py 176-182)
ApiHit(q, cache_key, guidance_filter) ==
    \E result \in {[_CACHE[cache_key][2] EXCEPT
                      !.items = apply_guidance_filtering(@, guidance_filter)]} :
        /\ ret' = [op |-> "api_dogs", q |-> q, key |-> cache_key, t |-> now, hit |-> TRUE,
                   exc |-> None, result |-> result, prev |-> LastSet(cache_key)]
        /\ upstream_log' = <<>>
        /\ UNCHANGED <<threads, now, NOW_UTC, _RATE_LIMIT, _CACHE, _ORG_CACHE, calls, sets, upstream, pass>>

\* the cache miss (app.py 184-207): search, filter by guidance, store
ApiMiss(q, cache_key, guidance_filter, p) ==
    /\ Len(calls) < MaxCalls
    /\ \E out \in {SearchOutcome(p, upstream, now, _RATE_LIMIT, _ORG_CACHE)} :
       \E result \in {[items |-> apply_guidance_filtering(out.items, guidance_filter),
                       page |-> p.page, pageSize |-> p.page_size, total |-> out.total]} :
       /\ _RATE_LIMIT' = out.rate
       /\ _ORG_CACHE' = out.org_cache
       /\ calls' = Append(calls, RateCallRecord(now, out.allowed))
       /\ upstream_log' = out.requests
       /\ pass' = [op |-> "search_animals", t |-> now, params |-> p, world |-> upstream,
                   exc |-> out.exc, fetched |-> out.fetched, retained |-> out.retained,
                   filtered |-> out.filtered]
       /\ IF out.exc # None
          THEN /\ _CACHE' = CacheGetStore(_CACHE, cache_key, now)
               /\ sets' = sets
               /\ ret' = [op |-> "api_dogs", q |-> q, key |-> cache_key, t |-> now,
                          hit |-> FALSE, exc |-> "HTTPException", result |-> NoResult,
                          prev |-> LastSet(cache_key)]
          ELSE /\ _CACHE' = CacheSetStore(CacheGetStore(_CACHE, cache_key, now), cache_key,
                                          result, API_DOGS_TTL, now)
               /\ sets' = DictSet(sets, cache_key,
                                  [t |-> now, ttl |-> API_DOGS_TTL, val |-> result, q |-> q])
               /\ ret' = [op |-> "api_dogs", q |-> q, key |-> cache_key, t |-> now,
                          hit |-> FALSE, exc |-> None, result |-> result,
                          prev |-> LastSet(cache_key)]
    /\ UNCHANGED <<threads, now, NOW_UTC, upstream>>

api_dogs(q) ==
    \E zips \in {ApiZips(q.zip)} :
    \E include_list \in {CsvList(q.includeBreeds)} :
    \E exclude_list \in {CsvList(q.excludeBreeds)} :
    \E guidance_filter \in {parse_guidance_for_size_filtering(q.guidance)} :
    \E final_sizes \in {FinalSizes(CsvList(q.size), guidance_filter)} :
    \E cache_key \in {CacheKey(q, zips, include_list, exclude_list, final_sizes)} :
        IF CacheHit(_CACHE, cache_key, now)
        THEN ApiHit(q, cache_key, guidance_filter)
        ELSE ApiMiss(q, cache_key, guidance_filter,
                     [zips |-> zips, sizes |-> final_sizes, include_breeds |-> include_list,
                      exclude_breeds |-> exclude_list, page |-> q.page,
                      page_size |-> q.limit, sort |-> q.sort])

\* between two requests the upstream's listings change
UpstreamChanges(world) ==
    /\ world # upstream
    /\ upstream' = world
    /\ UNCHANGED <<threads, now, NOW_UTC, _RATE_LIMIT, _CACHE, _ORG_CACHE, calls, sets, ret,
                   upstream_log, pass>>

(***************************************************************************)
(* Initial state: the module has just been imported.                       *)
(***************************************************************************)
\* an upstream that answers every request and lists nothing
World(pages) == [token_status |-> 200, pages |-> pages, orgs |-> EmptyDict]
QuietUpstream == World(EmptyDict)

InitWith(worlds) ==
    /\ now = 0
    /\ NOW_UTC = now
    /\ _RATE_LIMIT = EmptyDict
    /\ _CACHE = EmptyDict
    /\ _ORG_CACHE = EmptyDict
    /\ calls = <<>>
    /\ sets = EmptyDict
    /\ ret = [op |-> "import"]
    /\ upstream_log = <<>>
    /\ pass = [op |-> "import"]
    /\ threads = [th \in Threads |-> IdleThread]
    /\ upstream \in worlds

Init == InitWith({QuietUpstream})

(***************************************************************************)
(* The rate limiter on its own: calls with one fixed (N, W), on either of  *)
(* two identifiers, at any spacing.                                        *)
(***************************************************************************)
Identifiers == {"search", "global"}
RateN == {1, 2, SEARCH_MAX_REQUESTS}
RateW == {30, SEARCH_WINDOW}
RateSteps == {12, 60}

FixedNW(n, w) == IF calls = <<>> THEN TRUE ELSE calls[1].N = n /\ calls[1].W = w

RateCall == \E id \in Identifiers, n \in RateN, w \in RateW :
                FixedNW(n, w) /\ CheckRateLimit(id, n, w)
RateTick == \E d \in RateSteps : now + d <= NOW_UTC + MaxClock /\ AdvanceClock(d)

NextRate == RateCall \/ RateTick

SpecRate == Init /\ [][NextRate]_vars

(***************************************************************************)
(* Concurrent callers of check_rate_limit: MaxThreads request threads, all *)
(* calling for the identifier and with the window search_animals passes,   *)
(* their steps interleaved in any order, the clock advancing in between.   *)
(***************************************************************************)
RaceSteps == {30}
RaceLimits == {1, 2}

\* every call of a behaviour is made with the same limit
SameLimit(n) ==
    /\ \A th \in ActiveThreads : threads[th].N = n
    /\ calls # <<>> => calls[1].N = n

RaceReadClock == \E th \in Threads, n \in RaceLimits :
                     SameLimit(n) /\ ThreadReadClock(th, "search", n, SEARCH_WINDOW)
RaceBuildSwept == \E th \in Threads : ThreadBuildSwept(th)
RaceRebind == \E th \in Threads : ThreadRebind(th)
RaceCount == \E th \in Threads : ThreadCount(th)
RaceRecord == \E th \in Threads : ThreadRecord(th)
RaceTick == \E d \in RaceSteps : now + d <= NOW_UTC + MaxClock /\ AdvanceClock(d)

NextRace == RaceReadClock \/ RaceBuildSwept \/ RaceRebind \/ RaceCount \/ RaceRecord
            \/ RaceTick

SpecRace == Init /\ [][NextRace]_vars

(***************************************************************************)
(* The cache on its own.                                                   *)
(***************************************************************************)
CacheKeys == {"dog:1", "dog:2"}
CacheVals == {"v1", "v2"}
CacheTTLs == {20, API_DOGS_TTL}
CacheSteps == {20}

CacheSetStep == \E k \in CacheKeys, v \in CacheVals, ttl \in CacheTTLs : cache_set(k, v, ttl)
CacheGetStep == \E k \in CacheKeys : cache_get(k)
CacheTick == \E d \in CacheSteps : now + d <= NOW_UTC + MaxClock /\ AdvanceClock(d)

NextCache == CacheSetStep \/ CacheGetStep \/ CacheTick

SpecCache == Init /\ [][NextCache]_vars

(***************************************************************************)
(* Upstream contents for the aggregation pass: at most MaxFeed listings,   *)
(* the first half of them listed near the first ZIP code and the rest near *)
(* the second, each on one page that is the only page reported.            *)
(***************************************************************************)
MaxFeed == 4        \* listings upstream holds
MaxSearches == 1    \* search_animals calls in one behaviour of an aggregation specification

SeqsUpTo(S, n) == UNION {[1..k -> S] : k \in 0..n}

OnePage(animals) == <<[status |-> 200, animals |-> animals, total_pages |-> 1]>>

TwoZips == <<"08401", "11211">>

SplitWorld(feed) ==
    LET half == Min(Len(feed), MaxFeed \div 2) IN
    World([z \in {TwoZips[1], TwoZips[2]} |->
              IF z = TwoZips[1] THEN OnePage(SubSeq(feed, 1, half))
              ELSE OnePage(SubSeq(feed, half + 1, Len(feed)))])

SplitWorlds(listings) == {SplitWorld(feed) : feed \in SeqsUpTo(listings, MaxFeed)}

PlainSearch(zips) ==
    [zips |-> zips, sizes |-> <<>>, include_breeds |-> <<>>, exclude_breeds |-> <<>>,
     page |-> 1, page_size |-> 20, sort |-> "freshness"]

(***************************************************************************)
(* Deduplication: listings that differ in id and in name only, all of      *)
(* them recent and of an allowed breed.                                    *)
(***************************************************************************)
DedupListings ==
    {Dog("d1", "Rex", "Poodle", None, "Small", Aware(-3600), 5),
     Dog("d2", " REX ", "Poodle", None, "Small", Aware(-3600), 5),
     Dog("d1", "Bo", "Poodle", None, "Small", Aware(-3600), 5),
     Dog("d2", "Max", "Poodle", None, "Small", Aware(-3600), 5),
     Dog(None, "Rex", "Poodle", None, "Small", Aware(-3600), 5)}

InitDedup == InitWith(SplitWorlds(DedupListings))

DedupSearch == Len(calls) < MaxSearches /\ search_animals(PlainSearch(TwoZips))
DedupDigest == fetch_all_animals

NextDedup == DedupSearch \/ DedupDigest

SpecDedup == InitDedup /\ [][NextDedup]_vars

(***************************************************************************)
(* Recency: listings published around 24 hours before the import, passes   *)
(* made at the import and later.                                           *)
(***************************************************************************)
RecencyListings ==
    {Dog("d1", "Rex", "Poodle", None, "Small", Aware(- 3600), 5),
     Dog("d2", "Bo", "Beagle", None, "Medium", Aware(- HOURS_24), 3),
     Dog("d3", "Max", "Boxer", None, "Large", Aware(- HOURS_24 - 1), 9)}

RecencySteps == {60}

RecencySearch == Len(calls) < MaxSearches /\ search_animals(PlainSearch(TwoZips))
RecencyDigest == fetch_all_animals
RecencyTick == \E d \in RecencySteps : now + d <= NOW_UTC + MaxClock /\ AdvanceClock(d)

NextRecency == RecencySearch \/ RecencyDigest \/ RecencyTick

SpecRecency == InitWith(SplitWorlds(RecencyListings)) /\ [][NextRecency]_vars

(***************************************************************************)
(* Pagination: searches of any page and page size, in both sort modes,     *)
(* with a size filter that one of the listings fails.                      *)
(***************************************************************************)
PageListings ==
    {Dog("d1", "Rex", "Poodle", None, "Small", Aware(- 3600), 5),
     Dog("d2", "Bo", "Beagle", None, "Large", Aware(- 1800), 3),
     Dog("d3", "Max", "Boxer", None, "Medium", Aware(- 7200), 9)}

PageNumbers == {1, 2, 3}
PageSizes == {1, 2}
SortModes == {"distance", "freshness"}

PageSearch ==
    \E page \in PageNumbers, page_size \in PageSizes, sort \in SortModes :
        /\ Len(calls) < MaxSearches
        /\ search_animals([PlainSearch(TwoZips) EXCEPT !.sizes = <<"small", "LARGE">>,
                                                       !.page = page,
                                                       !.page_size = page_size,
                                                       !.sort = sort])

NextPage == PageSearch

SpecPage == InitWith(SplitWorlds(PageListings)) /\ [][NextPage]_vars

(***************************************************************************)
(* Breed exclusion: listings with an excluded breed as primary or as       *)
(* secondary breed, searched with include, exclude and size filters.       *)
(***************************************************************************)
BreedListings ==
    {Dog("d1", "Rex", "Siberian HUSKY", None, "Large", Aware(- 3600), 5),
     Dog("d2", "Bo", "Labrador Retriever", " pit bull mix ", "Medium", Aware(- 1800), 3),
     Dog("d3", "Max", "Poodle", "Labrador Retriever", "Small", Aware(- 7200), 9)}

IncludeFilters == {<<>>, <<"husky">>, <<"Pit", "lab">>}
ExcludeFilters == {<<>>, <<"poodle">>}
SizeFilters == {<<>>, <<"medium", "small">>}

BreedSearch ==
    \E include_breeds \in IncludeFilters, exclude_breeds \in ExcludeFilters,
       sizes \in SizeFilters :
        /\ Len(calls) < MaxSearches
        /\ search_animals([PlainSearch(TwoZips) EXCEPT !.include_breeds = include_breeds,
                                                       !.exclude_breeds = exclude_breeds,
                                                       !.sizes = sizes])
BreedDigest == fetch_all_animals

NextBreed == BreedSearch \/ BreedDigest

SpecBreed == InitWith(SplitWorlds(BreedListings)) /\ [][NextBreed]_vars

(***************************************************************************)
(* The listing fetcher: one ZIP code with up to MaxPages pages of any      *)
(* content and any reported page count, a second ZIP code with one page.   *)
(***************************************************************************)
MaxPages == 2       \* pages upstream holds for the first ZIP code

FreshDog == Dog("d1", "Rex", "Poodle", None, "Small", Aware(- 3600), 5)
StaleDog == Dog("d2", "Bo", "Beagle", None, "Medium", Aware(- HOURS_24 - 3600), 3)
NaiveDog == Dog("d3", "Max", "Boxer", None, "Large", Naive(- 3600), 9)
MalformedDog == Dog("d4", "Ace", "Pug", None, "Small", Malformed, 7)
OtherDog == Dog("d5", "Zoe", "Collie", None, "Medium", Aware(- 60), 2)

PageContents == {<<>>, <<FreshDog>>, <<FreshDog, StaleDog>>, <<NaiveDog>>, <<MalformedDog>>}
PageCounts == {0, 2, 3}

PageKinds ==
    {[status |-> 200, animals |-> animals, total_pages |-> total_pages] :
        animals \in PageContents, total_pages \in PageCounts}

FetchWorlds ==
    {World([z \in {TwoZips[1], TwoZips[2]} |->
               IF z = TwoZips[1] THEN pages ELSE OnePage(<<OtherDog>>)]) :
        pages \in SeqsUpTo(PageKinds, MaxPages)}

ZipOrders == {TwoZips, <<TwoZips[2], TwoZips[1]>>}

FetchSearch ==
    \E zips \in ZipOrders :
        Len(calls) < MaxSearches /\ search_animals(PlainSearch(zips))
FetchDigest == fetch_all_animals

NextFetch == FetchSearch \/ FetchDigest

SpecFetch == InitWith(FetchWorlds) /\ [][NextFetch]_vars

(***************************************************************************)
(* The search endpoint: a few queries against an upstream whose listings   *)
(* change between requests, over three minutes.                            *)
(***************************************************************************)
MaxApiClock == 180   \* the clock of the endpoint's specification stops here

ApiZip == "08401"

Small1 == Dog("d1", "Rex", "Poodle", None, "Small", Aware(-3600), 5)
Large2 == Dog("d2", "Bo", "Labrador Retriever", None, "Large", Aware(-7200), 3)
XLarge3 == Dog("d3", "Max", "Great Dane", None, "Extra Large", Aware(-1800), 9)

ApiWorlds ==
    {World([z \in {ApiZip} |-> OnePage(feed)]) :
        feed \in {<<Small1, Large2>>, <<XLarge3, Large2, Small1>>}}

ApiQuery(size, guidance, page, limit) ==
    [zip |-> ApiZip, radius |-> 100, age |-> "baby,young", includeBreeds |-> None,
     excludeBreeds |-> None, size |-> size, guidance |-> guidance, sort |-> "freshness",
     page |-> page, limit |-> limit]

ApiQueries ==
    {ApiQuery(None, None, 1, 20),
     ApiQuery(None, "Large dogs only, please", 1, 20),
     ApiQuery(" small ,", "Big dogs, x-large too", 1, 20)}

ApiSteps == {60}

ApiCall == \E q \in ApiQueries : api_dogs(q)
ApiTick == \E d \in ApiSteps : now + d <= NOW_UTC + MaxApiClock /\ AdvanceClock(d)
ApiUpstream == \E world \in ApiWorlds : UpstreamChanges(world)

NextApi == ApiCall \/ ApiTick \/ ApiUpstream

SpecApi == InitWith(ApiWorlds) /\ [][NextApi]_vars

(***************************************************************************)
(* Upstream failures: the token endpoint or one page of one ZIP code       *)
(* answers with an error status; the endpoint is queried with the two ZIP  *)
(* codes in either order while upstream recovers or breaks.                *)
(***************************************************************************)
FailedPage == [status |-> 500, animals |-> <<>>, total_pages |-> 0]
FirstOfTwo(animals) == [status |-> 200, animals |-> animals, total_pages |-> 2]

GoodWorld ==
    World([z \in {TwoZips[1], TwoZips[2]} |->
              IF z = TwoZips[1] THEN OnePage(<<Small1>>) ELSE OnePage(<<Large2>>)])

FailWorlds ==
    {GoodWorld,
     [GoodWorld EXCEPT !.token_status = 401],
     [GoodWorld EXCEPT !.pages[TwoZips[1]] = <<FirstOfTwo(<<Small1>>), FailedPage>>],
     [GoodWorld EXCEPT !.pages[TwoZips[2]] = <<FailedPage>>]}

FailQueries ==
    {[ApiQuery(None, None, 1, 20) EXCEPT !.zip = zip] : zip \in {"08401,11211", "11211, 08401"}}

FailCall == \E q \in FailQueries : api_dogs(q)
FailTick == \E d \in ApiSteps : now + d <= NOW_UTC + MaxApiClock /\ AdvanceClock(d)
FailUpstream == \E world \in FailWorlds : UpstreamChanges(world)

NextFail == FailCall \/ FailTick \/ FailUpstream

SpecFail == InitWith(FailWorlds) /\ [][NextFail]_vars

(***************************************************************************)
(* Organization lookups: listings that name an organization, whose         *)
(* endpoint answers with the organization, with nothing, or fails.         *)
(***************************************************************************)
WithContact(dog, organization_id, email, city, state) ==
    [dog EXCEPT !.organization_id = organization_id,
                !.contact = [email |-> email, phone |-> "555-0100",
                             address |-> [city |-> city, state |-> state]]]

OrgListings ==
    {WithContact(Small1, "NJ1", "Adopt@Happy-Tails.org", "Austin", "TX"),
     WithContact(Large2, "NJ1", "", "Austin", "TX"),
     WithContact(XLarge3, "NJ2", "info@pawsnj.com", "", ""),
     WithContact(OtherDog, "NJ2", "", "Austin", "")}

\* status 0: the request raised (no connection, timeout)
OrgAnswers ==
    {NotFound,
     [status |-> 500, organization |-> NoOrganization],
     [status |-> 0, organization |-> NoOrganization],
     [status |-> 200, organization |-> NoOrganization],
     [status |-> 200, organization |-> Organization("Happy Paws Rescue", "hi@happypaws.org", "555-0199")]}

OrgWorlds ==
    {[world EXCEPT !.orgs = [id \in {"NJ1"} |-> answer]] :
        world \in SplitWorlds(OrgListings), answer \in OrgAnswers}

OrgSearch == Len(calls) < MaxSearches /\ search_animals(PlainSearch(TwoZips))
OrgDigest == fetch_all_animals

NextOrg == OrgSearch \/ OrgDigest

SpecOrg == InitWith(OrgWorlds) /\ [][NextOrg]_vars

(***************************************************************************)
(* The recency window: one ZIP code whose listings upstream returns most   *)
(* recent first, cut into pages of one size, every page reporting the same *)
(* page count (0: no count); the count may differ from the number of pages *)
(* upstream holds.                                                         *)
(***************************************************************************)
WindowListings ==
    {Dog("d1", "Rex", "Poodle", None, "Small", Aware(- 600), 5),
     Dog("d2", "Bo", "Beagle", None, "Large", Aware(- 3600), 1),
     Dog("d3", "Max", "Boxer", None, "Medium", Aware(- HOURS_24), 3),
     Dog("d4", "Ace", "Pug", None, "Small", Aware(- HOURS_24), 7),
     Dog("d5", "Zoe", "Collie", None, "Medium", Aware(- HOURS_24 - 3600), 2),
     Dog("d6", "Sam", "Husky", None, "Large", Aware(- HOURS_24 - 7200), 4)}

\* sort=recent: no listing twice, none before a more recent one
RecencyDescending(feed) ==
    \A i, j \in 1..Len(feed) :
        i < j => feed[i] # feed[j] /\ feed[i].published_at.t >= feed[j].published_at.t

WindowFeeds == {feed \in SeqsUpTo(WindowListings, MaxFeed) : RecencyDescending(feed)}
WindowPageSizes == {1, 2}
WindowCounts == 0..MaxFeed

PageCount(feed, limit) == (Len(feed) + limit - 1) \div limit

\* the pages of a feed: page p holds listings (p-1)*limit + 1 .. p*limit
PagesOfFeed(feed, limit, total_pages) ==
    [p \in 1..PageCount(feed, limit) |->
        [status |-> 200,
         animals |-> SubSeq(feed, (p - 1) * limit + 1, Min(p * limit, Len(feed))),
         total_pages |-> total_pages]]

WindowZip == TwoZips[1]

WindowWorlds ==
    {World([z \in {WindowZip} |-> PagesOfFeed(feed, limit, total_pages)]) :
        feed \in WindowFeeds, limit \in WindowPageSizes, total_pages \in WindowCounts}

WindowSearch == Len(calls) < MaxSearches /\ search_animals(PlainSearch(<<WindowZip>>))
WindowDigest == fetch_all_animals

NextWindow == WindowSearch \/ WindowDigest

SpecWindow == InitWith(WindowWorlds) /\ [][NextWindow]_vars

(***************************************************************************)
(* Sorting: listings at distances 5, 1, 3 published at T3 > T1 > T2, in    *)
(* any upstream order, searched in each sort mode.                         *)
(***************************************************************************)
SortListings ==
    {Dog("d1", "Rex", "Poodle", None, "Small", Aware(- 600), 5),
     Dog("d2", "Bo", "Beagle", None, "Large", Aware(- 3600), 1),
     Dog("d3", "Max", "Boxer", None, "Medium", Aware(- 7200), 3)}

AnySortModes == {"distance", "freshness", "newest"}

SortSearch ==
    \E sort \in AnySortModes :
        /\ Len(calls) < MaxSearches
        /\ search_animals([PlainSearch(TwoZips) EXCEPT !.sort = sort])

NextSort == SortSearch

SpecSort == InitWith(SplitWorlds(SortListings)) /\ [][NextSort]_vars

(***************************************************************************)
(* Claims about the rate limiter.                                          *)
(***************************************************************************)
\* the calls before call i that were allowed, for the same identifier, inside
\* the window (t_i - W, t_i] of call i
OwnAllowedInWindow(i) ==
    {j \in 1..(i - 1) : /\ calls[j].ok
                        /\ calls[j].id = calls[i].id
                        /\ calls[j].t > calls[i].t - calls[i].W}

\* the calls before call i that were allowed, whatever the identifier
AllowedBefore(i) == {j \in 1..(i - 1) : calls[j].ok}

\* C1: a call is allowed only if fewer than N calls for its identifier were
\* allowed within the trailing W seconds, however close together the calls
\* are made; so at most N calls are allowed in any window of W seconds (for
\* search_animals, N = 5 and W = 60).
C1_AtMostNPerWindow ==
    \A i \in 1..Len(calls) :
        calls[i].ok => Cardinality(OwnAllowedInWindow(i)) < calls[i].N

\* C2: a call made when every previously allowed request is at least W
\* seconds old is allowed and its record is in the store; a rejected call
\* leaves no record, so it never prolongs the blocked period.
C2_AllowedAfterWindow ==
    /\ \A i \in 1..Len(calls) :
          (\A j \in AllowedBefore(i) : calls[j].t <= calls[i].t - calls[i].W)
              => calls[i].ok
    /\ calls # <<>> /\ calls[Len(calls)].ok =>
          LET c == calls[Len(calls)] IN
          /\ RateKey(c.id, c.t) \in DOMAIN _RATE_LIMIT
          /\ _RATE_LIMIT[RateKey(c.id, c.t)] = c.t
    /\ \A k \in DOMAIN _RATE_LIMIT :
          \E j \in 1..Len(calls) : calls[j].ok /\ RateKey(calls[j].id, calls[j].t) = k

\* a call is allowed once the window has elapsed, with a rejected call in between
C2_Witness ==
    /\ Len(calls) >= 3
    /\ calls[1].ok
    /\ \E j \in 2..(Len(calls) - 1) : ~ calls[j].ok /\ calls[j].id = calls[1].id
    /\ LET i == Len(calls) IN
       /\ calls[i].id = calls[1].id
       /\ \A j \in AllowedBefore(i) : calls[j].t <= calls[i].t - calls[i].W
       /\ calls[i].ok
       /\ RateKey(calls[i].id, calls[i].t) \in DOMAIN _RATE_LIMIT

\* C3: a call for identifier B is rejected only on the strength of requests
\* allowed for B itself inside the window; requests of another identifier
\* never cause the rejection.
C3_PerIdentifier ==
    \A i \in 1..Len(calls) :
        ~ calls[i].ok => Cardinality(OwnAllowedInWindow(i)) >= calls[i].N

(***************************************************************************)
(* Claims about the cache.                                                 *)
(***************************************************************************)
\* the latest cache_set of key k has not expired at time t
SetLive(k, t) == k \in DOMAIN sets /\ t <= sets[k].t + sets[k].ttl

\* C4: cache_get(k) returns the value of the most recent cache_set(k, v, ttl)
\* exactly when the clock at read time has not passed set time + ttl;
\* otherwise it returns absent and the entry for k is gone from the store.
\* cache_get never adds an entry and never changes the entries of other keys.
C4_CacheGetContract ==
    ret.op = "cache_get" =>
        /\ SetLive(ret.key, ret.t) => ret.val = sets[ret.key].val
        /\ ~ SetLive(ret.key, ret.t) => ret.val = None /\ ret.key \notin DOMAIN _CACHE
        /\ DOMAIN _CACHE \subseteq DOMAIN ret.before
        /\ \A k \in DOMAIN ret.before :
              k # ret.key => k \in DOMAIN _CACHE /\ _CACHE[k] = ret.before[k]
        /\ \A k \in DOMAIN _CACHE : _CACHE[k] = ret.before[k]

\* an expired entry is evicted by the read while another key's entry stays
C4_Witness ==
    /\ ret.op = "cache_get"
    /\ ret.key \in DOMAIN ret.before
    /\ ret.val = None
    /\ ret.key \notin DOMAIN _CACHE
    /\ _CACHE # EmptyDict

\* an entry is read at the very second of its expiry
C4_WitnessBoundary ==
    /\ ret.op = "cache_get"
    /\ ret.key \in DOMAIN sets
    /\ ret.t = sets[ret.key].t + sets[ret.key].ttl
    /\ ret.val # None

(***************************************************************************)
(* Claims about the aggregation pass.                                      *)
(***************************************************************************)
PassDone == pass.op \in {"search_animals", "fetch_all_animals"} /\ pass.exc = None

\* the listings the pass fetched, over its ZIP codes
Fetched == {pass.fetched[i] : i \in 1..Len(pass.fetched)}

Retained == {pass.retained[i] : i \in 1..Len(pass.retained)}

\* the fingerprint as the tuple of its normalised fields
FingerprintFields(d) ==
    <<Lower(Strip(OrEmpty(d.name))), Lower(Strip(OrEmpty(d.breeds.primary))),
      Lower(Strip(OrEmpty(d.breeds.secondary))), Lower(Strip(OrEmpty(d.age))),
      Lower(Strip(OrEmpty(d.size))), Lower(Strip(OrEmpty(d.gender)))>>

\* listing a is among the retained ones
Survives(a) ==
    \E r \in Retained : r.id = a.id /\ FingerprintFields(r) = FingerprintFields(a)

Eligible(a) ==
    /\ within_24_hours(a.published_at).val
    /\ ~ breed_excluded(a.breeds)
    /\ a.id # None

IdClash(a) ==
    \E b \in Fetched : b.id = a.id /\ FingerprintFields(b) # FingerprintFields(a)

C6_NoOlderThan24h ==
    PassDone =>
        \A i \in 1..Len(ret.items) :
            /\ parse_dt(ret.items[i].published_at).kind = "aware"
            /\ parse_dt(ret.items[i].published_at).t >= pass.t - HOURS_24

\* the fetched listings that pass the recency and breed rules and the
\* filters of the pass; equal listings count once
PassingListings ==
    {a \in Fetched : /\ Eligible(a)
                     /\ matches_filters(a, pass.params.sizes, pass.params.include_breeds,
                                        pass.params.exclude_breeds)}

\* C8: for page >= 1 and page_size >= 1, total is the number of listings
\* that pass dedup and all filters, whatever the page and the page size,
\* and items is the slice [(page-1)*page_size, page*page_size) of the sorted
\* filtered list, of length min(page_size, max(0, total - (page-1)*page_size)).
C8_PageIsSlice ==
    (PassDone /\ pass.op = "search_animals") =>
        /\ ret.total = Cardinality(PassingListings)
        /\ ret.total = Len(pass.filtered)
        /\ Len(ret.items) =
              Min(ret.pageSize, Max(0, ret.total - (ret.page - 1) * ret.pageSize))
        /\ \A k \in 1..Len(ret.items) :
              ret.items[k] = pass.filtered[(ret.page - 1) * ret.pageSize + k]

\* the second page of size one of two passing listings, a third listing
\* failing the size filter
C8_Witness ==
    /\ PassDone /\ pass.op = "search_animals"
    /\ ret.page = 2 /\ ret.pageSize = 1
    /\ ret.total = 2
    /\ Len(ret.items) = 1
    /\ Cardinality({a.id : a \in Fetched}) = 3

\* a page past the last listing is empty while total stays the full count
C8_WitnessPastEnd ==
    /\ PassDone /\ pass.op = "search_animals"
    /\ ret.page = 3 /\ ret.pageSize = 2
    /\ ret.total = 2
    /\ ret.items = <<>>

\* the primary or the secondary breed name of a listing contains an
\* excluded-breed substring, case-insensitively
NamesExcludedBreed(a) ==
    \E banned \in EXCLUDED_BREEDS :
        \/ Contains(Lower(OrEmpty(a.breeds.primary)), Lower(banned))
        \/ Contains(Lower(OrEmpty(a.breeds.secondary)), Lower(banned))

\* C9: a listing whose primary or secondary breed name contains an excluded
\* breed substring, in any letter case, is in no search result and in no
\* digest, whatever the include, exclude and size filters.
C9_ExcludedBreedNeverReturned ==
    pass.op \in {"search_animals", "fetch_all_animals"} =>
        /\ \A i \in 1..Len(ret.items) : ~ NamesExcludedBreed(ret.items[i])
        /\ \A r \in Retained : ~ NamesExcludedBreed(r)

\* a fetched listing excluded by its secondary breed alone matches the
\* include filter and the other filters of the search, beside a listing
\* that is returned
C9_Witness ==
    /\ PassDone /\ pass.op = "search_animals"
    /\ pass.params.include_breeds # <<>>
    /\ \E a \in Fetched :
          /\ NamesExcludedBreed(a)
          /\ ~ Contains(Lower(OrEmpty(a.breeds.primary)), "pit bull")
          /\ Eligible([a EXCEPT !.breeds = [primary |-> "Poodle", secondary |-> None]])
          /\ matches_filters(a, pass.params.sizes, pass.params.include_breeds,
                             pass.params.exclude_breeds)
    /\ ret.items # <<>>

\* the page requests of the last pass for ZIP code z, in the order issued
ZipRequests(z) ==
    SelectSeq(upstream_log, LAMBDA r : r[1] = "animals" /\ r[2] = z)

\* the ZIP codes of the page requests of the last pass, in the order issued
RequestedZips ==
    LET rq == SelectSeq(upstream_log, LAMBDA r : r[1] = "animals")
    IN  [k \in 1..Len(rq) |-> rq[k][2]]

\* the claim's condition for going on after page p: the page is not empty,
\* p is below the reported page count, the last listing is not older than
\* the cutoff
GoesOnAfter(resp, p) ==
    /\ resp.animals # <<>>
    /\ p < resp.total_pages
    /\ ~ (/\ resp.animals[Len(resp.animals)].published_at.kind \in {"aware", "naive"}
          /\ resp.animals[Len(resp.animals)].published_at.t < CUTOFF_UTC)

RECURSIVE PagesOf(_, _, _)
PagesOf(world, z, n) ==
    IF n = 0 THEN <<>> ELSE PagesOf(world, z, n - 1) \o PageResponse(world, z, n).animals

RECURSIVE ReceivedListings(_, _)
ReceivedListings(world, zips) ==
    IF zips = <<>> THEN <<>>
    ELSE PagesOf(world, Head(zips), Len(ZipRequests(Head(zips))))
         \o ReceivedListings(world, Tail(zips))

ZipIndex(zips, z) == CHOOSE i \in 1..Len(zips) : zips[i] = z

\* C10: for each ZIP code the fetcher requests pages 1, 2, 3, ... in order,
\* each once; after page p it requests page p+1 exactly when page p was not
\* empty, p is below the reported page count and the last listing of page p
\* is not older than the cutoff; the listings of every received page are in
\* the result; the ZIP codes are fetched one after another in the given order.
C10_FetchProtocol ==
    (pass.op \in {"search_animals", "fetch_all_animals"} /\ pass.exc # "RateLimit") =>
        /\ \A i \in 1..Len(pass.params.zips) :
              LET rq == ZipRequests(pass.params.zips[i]) IN
              /\ pass.exc = None => Len(rq) >= 1
              /\ \A p \in 1..Len(rq) :
                    /\ rq[p][3] = p
                    /\ (p < Len(rq)) <=>
                          GoesOnAfter(PageResponse(pass.world, pass.params.zips[i], p), p)
        /\ \A j, k \in 1..Len(RequestedZips) :
              j < k => ZipIndex(pass.params.zips, RequestedZips[j])
                          <= ZipIndex(pass.params.zips, RequestedZips[k])
        /\ pass.fetched = ReceivedListings(pass.world, pass.params.zips)

(***************************************************************************)
(* Claims about the search endpoint.                                       *)
(***************************************************************************)
\* the last api_dogs call had the parameters of an earlier call that
\* succeeded and stored its result, and comes within that call's TTL
WithinTTLOfFirst ==
    /\ ret.op = "api_dogs"
    /\ ret.prev.some
    /\ ret.prev.at.q = ret.q
    /\ ret.t <= ret.prev.at.t + API_DOGS_TTL

\* C5: a call of api_dogs with the query parameters of an earlier call that
\* succeeded, made within the 120-second TTL of that call, returns the
\* same items in the same order and issues no upstream request.
C5_SecondCallReplays ==
    WithinTTLOfFirst =>
        /\ ret.exc = None
        /\ ret.result.items = ret.prev.at.val.items
        /\ upstream_log = <<>>

\* a second call at the last second of the TTL, after upstream changed,
\* with a guidance filter that drops a listing
C5_Witness ==
    /\ WithinTTLOfFirst
    /\ ret.t = ret.prev.at.t + API_DOGS_TTL
    /\ upstream # pass.world
    /\ ret.q.guidance # None
    /\ ret.result.items # <<>>
    /\ Len(ret.result.items) < ret.result.total

(***************************************************************************)
(* Claims about upstream failures.                                         *)
(***************************************************************************)
\* upstream answers the request with an error status
RequestFails(world, r) ==
    \/ r[1] = "token" /\ world.token_status # 200
    \/ r[1] = "animals" /\ PageResponse(world, r[2], r[3]).status # 200

\* the positions of the failed token and page requests of the last call
FailedRequests == {k \in 1..Len(upstream_log) : RequestFails(pass.world, upstream_log[k])}

\* C11: when the token request or a page request of any ZIP code fails
\* during a search, the call fails: it returns no result page and none of
\* the listings collected before, the failed request is the last request
\* issued and is issued once, and nothing is written to the result cache.
C11_FailureIsTotal ==
    (ret.op = "api_dogs" /\ ~ ret.hit /\ FailedRequests # {}) =>
        /\ ret.exc # None
        /\ ret.result = NoResult
        /\ FailedRequests = {Len(upstream_log)}
        /\ \A k \in 1..(Len(upstream_log) - 1) : upstream_log[k] # upstream_log[Len(upstream_log)]
        /\ ret.key \notin DOMAIN _CACHE
        /\ LastSet(ret.key) = ret.prev

\* the second ZIP code fails after the first gave listings, on a call whose
\* earlier result had been cached and has expired
C11_Witness ==
    /\ ret.op = "api_dogs" /\ ~ ret.hit
    /\ FailedRequests # {}
    /\ upstream_log[Len(upstream_log)][1] = "animals"
    /\ pass.fetched # <<>>
    /\ ret.prev.some
    /\ ret.prev.at.q = ret.q

(***************************************************************************)
(* Claims about organization lookups.                                      *)
(***************************************************************************)
\* the lookup of the organization fails: no connection, an error status,
\* not found
LookupFails(world, organization_id) ==
    OrgResponse(world, organization_id).status # 200

\* the names the email domains of the listings' contact blocks give
DomainNames ==
    [email \in {"Adopt@Happy-Tails.org", "info@pawsnj.com"} |->
        IF email = "info@pawsnj.com" THEN "Pawsnj" ELSE "Happy Tails"]

\* organization info from the contact block: the email domain when there
\* is an email, otherwise the city and state, otherwise a placeholder
ContactDerived(contact) ==
    [name |-> IF contact.email \in DOMAIN DomainNames THEN DomainNames[contact.email]
              ELSE IF contact.address.city # "" /\ contact.address.state # ""
              THEN "Shelter in " \o contact.address.city \o ", " \o contact.address.state
              ELSE "Unknown Shelter",
     email |-> contact.email,
     phone |-> contact.phone]

\* C12: a failed organization lookup never makes a search or a digest fail
\* and never drops the listing: the listing is retained with organization
\* info derived from its contact block, and the failed lookup leaves no
\* entry in the organization cache.
C12_FailedLookupFallsBack ==
    pass.op \in {"search_animals", "fetch_all_animals"} =>
        \A a \in Fetched :
            (/\ Eligible(a)
             /\ a.organization_id # None
             /\ LookupFails(pass.world, a.organization_id))
                => /\ pass.exc = None
                   /\ \E r \in Retained :
                         r.id = a.id /\ r.organization = ContactDerived(a.contact)
                   /\ OrgKey(a.organization_id) \notin DOMAIN _ORG_CACHE

\* lookups fail with an error status for listings of each kind of contact
\* block: an email, a city and state only, neither
C12_Witness ==
    /\ PassDone
    /\ OrgResponse(pass.world, "NJ1").status = 500
    /\ OrganizationRequest("NJ1") \in {upstream_log[k] : k \in 1..Len(upstream_log)}
    /\ {r.organization.name : r \in Retained}
          = {"Happy Tails", "Shelter in Austin, TX", "Pawsnj", "Unknown Shelter"}

(***************************************************************************)
(* Claims about malformed publish timestamps.                              *)
(***************************************************************************)
\* C13: whatever published_at upstream supplies (missing, not ISO text, ISO
\* text without an offset), neither the fetcher nor the pass raises because
\* of it, and no listing with such a timestamp passes for a recent one.
C13_MalformedNeverFatal ==
    pass.op \in {"search_animals", "fetch_all_animals"} =>
        /\ pass.exc # "TypeError"
        /\ \A r \in Retained : r.published_at.kind = "aware"

(***************************************************************************)
(* Claims about the order of the result.                                   *)
(***************************************************************************)
\* C14: the list search_animals paginates is in non-decreasing distance
\* when sort is "distance" and in non-increasing publish time for any
\* other sort mode.
C14_ResultIsOrdered ==
    (PassDone /\ pass.op = "search_animals") =>
        /\ {pass.filtered[i].id : i \in 1..Len(pass.filtered)}
              = {a.id : a \in PassingListings}
        /\ \A i, j \in 1..Len(pass.filtered) :
              i < j => IF pass.params.sort = "distance"
                       THEN pass.filtered[i].distance <= pass.filtered[j].distance
                       ELSE pass.filtered[i].published_at.t >= pass.filtered[j].published_at.t

\* distances fetched as 5, 1, 3 come out as 1, 3, 5
C14_Witness ==
    /\ PassDone /\ pass.op = "search_animals"
    /\ pass.params.sort = "distance"
    /\ [i \in 1..Len(pass.fetched) |-> pass.fetched[i].distance] = <<5, 1, 3>>
    /\ [i \in 1..Len(ret.items) |-> ret.items[i].distance] = <<1, 3, 5>>

\* publish times fetched as T3, T1, T2 in a sort mode other than freshness
\* and distance come out as T3, T1, T2 by time, newest first
C14_WitnessFreshness ==
    /\ PassDone /\ pass.op = "search_animals"
    /\ pass.params.sort = "newest"
    /\ [i \in 1..Len(pass.fetched) |-> pass.fetched[i].published_at.t] = <<- 7200, - 600, - 3600>>
    /\ [i \in 1..Len(ret.items) |-> ret.items[i].published_at.t] = <<- 600, - 3600, - 7200>>

(***************************************************************************)
(* Claims about concurrent callers of the rate limiter.                    *)
(***************************************************************************)
\* no two calls read the same clock value, so no two record keys coincide
DistinctReadings ==
    \A i, j \in 1..Len(calls) : i # j => calls[i].t # calls[j].t

\* the calls allowed inside the window of W seconds that ends at call i
AllowedInWindowEndingAt(i) ==
    {j \in 1..Len(calls) : /\ calls[j].ok
                           /\ calls[j].t > calls[i].t - calls[i].W
                           /\ calls[j].t <= calls[i].t}

\* the record of every allowed call that is still inside the window is in the
\* store
NoInWindowRecordLost ==
    \A i \in 1..Len(calls) :
        calls[i].ok /\ calls[i].t > now - calls[i].W
            => RateKey(calls[i].id, calls[i].t) \in DOMAIN _RATE_LIMIT

\* C15: when several threads run check_rate_limit for one identifier with
\* their sweep, count and record steps interleaved in any order, at most N
\* calls return True within any window of W seconds, and no in-window record
\* written by one thread is lost through another thread's sweep.
C15_ConcurrentCallsKeepLimit ==
    DistinctReadings =>
        /\ \A i \in 1..Len(calls) :
              calls[i].ok => Cardinality(AllowedInWindowEndingAt(i)) <= calls[i].N
        /\ NoInWindowRecordLost

(***************************************************************************)
(* Claims about the recency window of the fetcher.                         *)
(***************************************************************************)
\* the pages upstream holds for ZIP code z, and the listings on them
UpstreamPages(z) == IF z \in DOMAIN pass.world.pages THEN pass.world.pages[z] ELSE <<>>

UpstreamListings(z) ==
    UNION {{UpstreamPages(z)[p].animals[i] : i \in 1..Len(UpstreamPages(z)[p].animals)} :
              p \in 1..Len(UpstreamPages(z))}

InsideWindow(a) == a.published_at.kind = "aware" /\ a.published_at.t >= CUTOFF_UTC

\* a pass over the one ZIP code of the recency window has run to its end
WindowPassDone == PassDone /\ WindowZip \in DOMAIN pass.world.pages

\* every page reports a page count that covers the pages upstream holds
CountCoversPages(z) ==
    \A p \in 1..Len(UpstreamPages(z)) : UpstreamPages(z)[p].total_pages >= Len(UpstreamPages(z))

ExpectedLength(result) ==
    Min(result.pageSize, Max(0, result.total - (result.page - 1) * result.pageSize))

\* a cache hit returns the response the miss stored under the key
ReplaysStored == ret.hit => ret.prev.some /\ ret.result = ret.prev.at.val

\* C17: every response of api_dogs, on a cache miss and on a cache hit, with
\* any combination of size list and guidance text, is a consistent result
\* page, len(items) = min(pageSize, max(0, total - (page-1)*pageSize)), and
\* the response stored on a miss is the response replayed on a hit.
C17_ConsistentResultPage ==
    (ret.op = "api_dogs" /\ ret.exc = None) =>
        /\ Len(ret.result.items) = ExpectedLength(ret.result)
        /\ ReplaysStored

=============================================================================
